---------------------------- MODULE Spec2Model ----------------------------
(***************************************************************************)
(* A model of the renovar backend: a blog-post CRUD server with a single   *)
(* admin login.  Two variants of the server exist in the repository:       *)
(*   - the file variant    (src/server.js): posts live in posts.json,      *)
(*     images in uploads/ on the local disk;                               *)
(*   - the backend variant (src/unnamed/part_000): posts live in a table   *)
(*     of a hosted database, images in its object storage.                 *)
(* Strings that the code inspects character by character (titles, slugs,   *)
(* route identifiers) are sequences of one-character strings; every other  *)
(* string is a TLA+ string.                                                *)
(***************************************************************************)
EXTENDS Integers, Sequences, FiniteSets, TLC

VARIABLES
    variant,    \* which server runs: "file" or "backend"
    now,        \* Date.now(), in milliseconds
    ticks,      \* how often the clock has moved on
    posts,      \* posts.json (file) or the rows of the posts table (backend)
    nextId,     \* the posts table's id sequence (backend)
    uploads,    \* the names in uploads/ (file) or in the bucket (backend)
    issued,     \* the tokens /api/login has handed out, with their time of issue
    req,        \* the request last handled
    resp,       \* its response
    inflight,   \* RaceSpec: the requests under way, each with what it has read
    slugArg,    \* SlugSpec: the string handed to generateSlug
    slugRes,    \* SlugSpec: what generateSlug returned
    slugCalls   \* SlugSpec: how often it has been called

vars == <<variant, now, ticks, posts, nextId, uploads, issued, req, resp,
          inflight, slugArg, slugRes, slugCalls>>

\* the variables of the other specifications
slugVars == <<slugArg, slugRes, slugCalls>>

(***************************************************************************)
(* Bounds of the model.                                                    *)
(***************************************************************************)
\* longest title handed to generateSlug in SlugSpec
MaxLen == 4
\* most posts stored at once
MaxPosts == 2
\* most clock ticks in one behaviour
MaxTicks == 1

(***************************************************************************)
(* Program constants.                                                      *)
(***************************************************************************)
\* expiresIn: '1h', in the seconds jsonwebtoken counts in
ExpiresInSec == 3600
\* Date.now() is in milliseconds, a token's iat and exp in seconds
MsPerSec == 1000

(***************************************************************************)
(* Characters.                                                             *)
(***************************************************************************)
UpperLetters == {"A", "H", "I"}
LowerLetters == {"a", "h", "i"}
Digits == {"0", "1", "2", "3", "4", "5", "6", "7", "8", "9"}
\* \s of a JavaScript regular expression, as far as the model's alphabet goes
Whitespace == {" ", "TAB"}
\* U+0130, whose lower case is the two characters i and U+0307
IDot == "I_DOT"
CombiningDot == "COMB_DOT"

\* String.prototype.toLowerCase on one character: the characters it yields
ToLowerChar(c) ==
    CASE c = "A" -> <<"a">>
      [] c = "H" -> <<"h">>
      [] c = "I" -> <<"i">>
      [] c = IDot -> <<"i", CombiningDot>>
      [] OTHER -> <<c>>

RECURSIVE ToLowerCase(_)
ToLowerCase(s) ==
    IF s = <<>> THEN <<>> ELSE ToLowerChar(Head(s)) \o ToLowerCase(Tail(s))

\* s.replace(/[^...]/g, ''): drop every character outside `keep`
RECURSIVE StripOutside(_, _)
StripOutside(s, keep) ==
    IF s = <<>> THEN <<>>
    ELSE IF Head(s) \in keep THEN <<Head(s)>> \o StripOutside(Tail(s), keep)
    ELSE StripOutside(Tail(s), keep)

\* s without its longest prefix of characters of `cls`
RECURSIVE DropWhile(_, _)
DropWhile(s, cls) ==
    IF s # <<>> /\ Head(s) \in cls THEN DropWhile(Tail(s), cls) ELSE s

\* s.replace(/[cls]+/g, '-'): every maximal run of characters of `cls` becomes
\* one hyphen
RECURSIVE ReplaceRuns(_, _)
ReplaceRuns(s, cls) ==
    IF s = <<>> THEN <<>>
    ELSE IF Head(s) \in cls THEN <<"-">> \o ReplaceRuns(DropWhile(s, cls), cls)
    ELSE <<Head(s)>> \o ReplaceRuns(Tail(s), cls)

\* s without its longest suffix of characters of `cls`
RECURSIVE DropTrailing(_, _)
DropTrailing(s, cls) ==
    IF s # <<>> /\ s[Len(s)] \in cls
    THEN DropTrailing(SubSeq(s, 1, Len(s) - 1), cls) ELSE s

\* s.replace(/^-+|-+$/g, '')
TrimHyphens(s) == DropTrailing(DropWhile(s, {"-"}), {"-"})

SlugChars == LowerLetters \cup Digits \cup {" ", "-"}

\* The same steps with the two collapsing replacements in the other order.
generateSlugSwapped(title) ==
    TrimHyphens(
        ReplaceRuns(
            ReplaceRuns(StripOutside(ToLowerCase(title), SlugChars), {"-"}),
            Whitespace))

generateSlug(title) ==
    TrimHyphens(
        ReplaceRuns(
            ReplaceRuns(StripOutside(ToLowerCase(title), SlugChars), Whitespace),
            {"-"}))

(***************************************************************************)
(* Strings of at most n characters over an alphabet.                       *)
(***************************************************************************)
StringsUpTo(alphabet, n) == UNION {[1..k -> alphabet] : k \in 0..n}

SlugAlphabet == {"A", "a", "1", " ", "-", "!", "TAB", IDot}

SlugInputs == StringsUpTo(SlugAlphabet, MaxLen)

(***************************************************************************)
(* Numbers and their decimal numerals.                                     *)
(***************************************************************************)
DigitSeq == <<"0", "1", "2", "3", "4", "5", "6", "7", "8", "9">>

DigitVal(c) == (CHOOSE k \in 1..10 : DigitSeq[k] = c) - 1

\* String(n) for an integer n >= 0
RECURSIVE ToDigits(_)
ToDigits(n) ==
    IF n < 10 THEN <<DigitSeq[n + 1]>>
    ELSE ToDigits(n \div 10) \o <<DigitSeq[(n % 10) + 1]>>

\* the longest prefix of s made of digits
RECURSIVE LeadingDigits(_)
LeadingDigits(s) ==
    IF s # <<>> /\ Head(s) \in Digits
    THEN <<Head(s)>> \o LeadingDigits(Tail(s)) ELSE <<>>

RECURSIVE DigitsValue(_)
DigitsValue(s) ==
    IF s = <<>> THEN 0
    ELSE 10 * DigitsValue(SubSeq(s, 1, Len(s) - 1)) + DigitVal(s[Len(s)])

\* isNaN(s) is false: s reads as a number.  Over the characters of ids and
\* slugs (lower-case letters, digits, hyphens) that is an optional minus sign
\* followed by digits only.
IsNumericString(s) ==
    LET body == IF s # <<>> /\ Head(s) = "-" THEN Tail(s) ELSE s
    IN  body # <<>> /\ LeadingDigits(body) = body

\* parseInt(s): an optional minus sign and the leading digits, NaN without any
parseInt(s) ==
    LET neg == s # <<>> /\ Head(s) = "-"
        ds == LeadingDigits(IF neg THEN Tail(s) ELSE s)
    IN  IF ds = <<>> THEN [nan |-> TRUE, val |-> 0]
        ELSE [nan |-> FALSE,
              val |-> IF neg THEN 0 - DigitsValue(ds) ELSE DigitsValue(ds)]

(***************************************************************************)
(* Configuration (process.env).                                            *)
(***************************************************************************)
ADMIN_USERNAME == "admin"
\* ADMIN_PASSWORD is the bcrypt hash of this password
AdminPassword == "s3cret"
ADMIN_PASSWORD == [bcryptOf |-> AdminPassword]
JWT_SECRET == "jwt-secret"

(***************************************************************************)
(* JSON values of the login body, and the two libraries of the login.      *)
(***************************************************************************)
JString(s) == [type |-> "string", val |-> s]
JNumber(s) == [type |-> "number", val |-> s]

\* !v for a field of a JSON body (a field the body lacks is undefined)
Missing(body, f) ==
    f \notin DOMAIN body \/ (body[f].type = "string" /\ body[f].val = "")

\* bcrypt.compare(data, hash): rejects unless data is a string
bcryptCompare(data, hash) ==
    IF data.type # "string" THEN "throws"
    ELSE IF data.val = hash.bcryptOf THEN "true" ELSE "false"

\* jwt.sign({username}, secret, {expiresIn: '1h'}) at clock reading t (ms):
\* iat is the clock in whole seconds
jwtSign(username, secret, t) ==
    [username |-> username,
     iat |-> t \div MsPerSec,
     exp |-> (t \div MsPerSec) + ExpiresInSec,
     key |-> secret]

\* a token string that is no JWT at all
MalformedToken == [malformed |-> TRUE]

\* The verification with the expiry test off by one (> for >=).
jwtVerifyLate(token, secret, t) ==
    /\ "key" \in DOMAIN token
    /\ token.key = secret
    /\ ~((t \div MsPerSec) > token.exp)

\* jwt.verify(token, secret) at clock reading t does not throw
jwtVerify(token, secret, t) ==
    /\ "key" \in DOMAIN token
    /\ token.key = secret
    /\ ~((t \div MsPerSec) >= token.exp)

(***************************************************************************)
(* Requests and responses.                                                 *)
(***************************************************************************)
NoHeader == [kind |-> "none"]
\* an Authorization header that does not start with 'Bearer '
OtherHeader == [kind |-> "other"]
Bearer(token) == [kind |-> "bearer", token |-> token]

LOGIN == "POST /api/login"
UPLOAD == "POST /api/upload"
GET_POST == "GET /api/post/:identifier"
CREATE == "POST /api/posts"
UPDATE == "PUT /api/posts/:id"
DELETE == "DELETE /api/posts/:id"
Protected == {UPLOAD, CREATE, UPDATE, DELETE}

NoFile == [present |-> FALSE]
File(name) == [present |-> TRUE, originalname |-> name]
Null == [null |-> TRUE]

Reply(status, body) == [status |-> status, body |-> body]
Error(status, message) == Reply(status, [error |-> message])

\* The gate without the signature and expiry test.
authMiddlewareOpen(header, t) ==
    IF header.kind # "bearer"
    THEN [pass |-> FALSE, resp |-> Error(401, "No token provided")]
    ELSE [pass |-> TRUE, resp |-> Reply(200, <<>>)]

\* authMiddleware: pass (next() is called) or the response it sends instead
authMiddleware(header, t) ==
    IF header.kind # "bearer"
    THEN [pass |-> FALSE, resp |-> Error(401, "No token provided")]
    ELSE IF jwtVerify(header.token, JWT_SECRET, t)
    THEN [pass |-> TRUE, resp |-> Reply(200, <<>>)]
    ELSE [pass |-> FALSE, resp |-> Error(403, "Invalid token")]

\* !v for a field of a post body: undefined, the empty string, or null
Falsy(body, f) ==
    \/ f \notin DOMAIN body
    \/ body[f] = (IF f = "title" THEN <<>> ELSE IF f = "image" THEN Null ELSE "")

\* the storage a handler reads and leaves behind, with its response
Outcome(p, n, u, r) == [posts |-> p, nextId |-> n, uploads |-> u, resp |-> r]
Unchanged(r) == Outcome(posts, nextId, uploads, r)

\* index of the first post satisfying Test, 0 when none (findIndex)
FirstIndex(list, Test(_)) ==
    IF \E i \in 1..Len(list) : Test(list[i])
    THEN CHOOSE i \in 1..Len(list) :
            Test(list[i]) /\ \A j \in 1..(i - 1) : ~Test(list[j])
    ELSE 0

RemoveAt(list, i) == SubSeq(list, 1, i - 1) \o SubSeq(list, i + 1, Len(list))

\* multer's filename: Date.now() + '-' + file.originalname
StoredName(t, file) == <<t, file.originalname>>

(***************************************************************************)
(* The file variant (src/server.js).  Each operator is one route: the      *)
(* middleware chain and the handler with its two callbacks, run without    *)
(* another request in between.  io tells how the request's file system     *)
(* calls end: io.read is readFile succeeding, io.write is writeFile        *)
(* succeeding.  posts.json is only ever written by JSON.stringify of an    *)
(* array, so a successful read parses.                                     *)
(***************************************************************************)
FileIO == [read : BOOLEAN, write : BOOLEAN]

fileUpload(header, file) ==
    LET gate == authMiddleware(header, now)
    IN  IF ~gate.pass THEN Unchanged(gate.resp)
        ELSE IF ~file.present THEN Unchanged(Error(400, "No file uploaded"))
        ELSE Outcome(posts, nextId, uploads \cup {StoredName(now, file)},
                     Reply(200, [url |-> <<"/uploads/", StoredName(now, file)>>]))

fileGetPost(identifier, io) ==
    IF ~io.read THEN Unchanged(Error(500, "Cannot read posts"))
    ELSE
    LET byId == IF IsNumericString(identifier)
                THEN FirstIndex(posts, LAMBDA p : p.id = parseInt(identifier).val)
                ELSE 0
        bySlug == IF byId # 0 THEN byId
                  ELSE FirstIndex(posts, LAMBDA p : p.slug = identifier)
        found == IF bySlug # 0 THEN bySlug
                 ELSE FirstIndex(posts, LAMBDA p : generateSlug(p.title) = identifier)
    IN  IF found = 0 THEN Unchanged(Error(404, "Post not found"))
        ELSE Unchanged(Reply(200, posts[found]))

\* The create handler without its validation of the three required fields.
fileCreateUnvalidated(header, body, file, io) ==
    LET gate == authMiddleware(header, now)
        stored == IF file.present THEN uploads \cup {StoredName(now, file)}
                  ELSE uploads
        field(f) == IF f \in DOMAIN body THEN body[f]
                    ELSE IF f = "title" THEN <<>> ELSE ""
    IN  IF ~gate.pass THEN Unchanged(gate.resp)
        ELSE
        LET newPost == [id |-> now, title |-> field("title"),
                        content |-> field("content"), label |-> field("label"),
                        slug |-> generateSlug(field("title")), createdAt |-> now,
                        image |-> Null]
        IN  Outcome(Append(IF io.read THEN posts ELSE <<>>, newPost), nextId, stored,
                    Reply(200, [success |-> TRUE, id |-> newPost.id,
                                slug |-> newPost.slug]))

fileCreate(header, body, file, io) ==
    LET gate == authMiddleware(header, now)
        \* upload.single('image') stores the file before the handler runs
        stored == IF file.present THEN uploads \cup {StoredName(now, file)}
                  ELSE uploads
    IN  IF ~gate.pass THEN Unchanged(gate.resp)
        ELSE IF Falsy(body, "title") \/ Falsy(body, "content") \/ Falsy(body, "label")
        THEN Outcome(posts, nextId, stored,
                     Error(400, "Title, content, and label required"))
        ELSE
        LET \* let posts = []; if (!err) posts = JSON.parse(data)
            read == IF io.read THEN posts ELSE <<>>
            newPost == [id |-> now, title |-> body.title, content |-> body.content,
                        label |-> body.label, slug |-> generateSlug(body.title),
                        createdAt |-> now,
                        image |-> IF file.present
                                  THEN [url |-> <<"/uploads/", StoredName(now, file)>>]
                                  ELSE Null]
        IN  IF ~io.write
            THEN Outcome(posts, nextId, stored, Error(500, "Cannot save post"))
            ELSE Outcome(Append(read, newPost), nextId, stored,
                         Reply(200, [success |-> TRUE, id |-> newPost.id,
                                     slug |-> newPost.slug]))

\* The route has no multipart middleware: a request that carries a file is a
\* multipart request, whose fields express.json and express.urlencoded leave
\* unparsed.
fileUpdate(header, id, body, file, io) ==
    LET gate == authMiddleware(header, now)
        postId == parseInt(id)
        parsed == IF file.present THEN <<>> ELSE body
    IN  IF ~gate.pass THEN Unchanged(gate.resp)
        ELSE IF Falsy(parsed, "title") \/ Falsy(parsed, "content")
                \/ Falsy(parsed, "label")
        THEN Unchanged(Error(400, "Title, content, and label required"))
        ELSE IF ~io.read THEN Unchanged(Error(500, "Cannot read posts"))
        ELSE
        LET index == FirstIndex(posts, LAMBDA p : ~postId.nan /\ p.id = postId.val)
        IN  IF index = 0 THEN Unchanged(Error(404, "Post not found"))
            ELSE IF ~io.write THEN Unchanged(Error(500, "Cannot save post"))
            ELSE Outcome(
                    [posts EXCEPT ![index] =
                        [title |-> parsed.title, content |-> parsed.content,
                         label |-> parsed.label, slug |-> generateSlug(parsed.title),
                         updated |-> now] @@ posts[index]],
                    nextId, uploads, Reply(200, [success |-> TRUE]))

fileDelete(header, id, io) ==
    LET gate == authMiddleware(header, now)
        postId == parseInt(id)
    IN  IF ~gate.pass THEN Unchanged(gate.resp)
        ELSE IF ~io.read THEN Unchanged(Error(500, "Cannot read posts"))
        ELSE
        LET index == FirstIndex(posts, LAMBDA p : ~postId.nan /\ p.id = postId.val)
        IN  IF index = 0 THEN Unchanged(Error(404, "Post not found"))
            ELSE IF ~io.write THEN Unchanged(Error(500, "Cannot save posts"))
            ELSE Outcome(RemoveAt(posts, index), nextId, uploads,
                         Reply(200, [success |-> TRUE, post |-> posts[index]]))

(***************************************************************************)
(* The backend variant (src/unnamed/part_000).  posts is the rows of the   *)
(* posts table in insertion order, nextId the table's id sequence, uploads *)
(* the objects of the uploads bucket.  A column holding NULL is a field    *)
(* the row's record lacks.  io.storage is the storage call succeeding,     *)
(* io.db the database call succeeding.                                     *)
(***************************************************************************)
BackendIO == [storage : BOOLEAN, db : BOOLEAN]

\* the rows .eq('id', value) selects: the value is cast to the column's type
RowsWithId(id) ==
    IF IsNumericString(id)
    THEN {i \in 1..Len(posts) : posts[i].id = parseInt(id).val}
    ELSE {}

\* data[0] of a list of row indices: the first in table order
FirstOf(indices) == CHOOSE i \in indices : \A j \in indices : i <= j

backendUpload(header, file, io) ==
    LET gate == authMiddleware(header, now)
        filename == StoredName(now, file)
    IN  IF ~gate.pass THEN Unchanged(gate.resp)
        ELSE IF ~file.present THEN Unchanged(Error(400, "No file uploaded"))
        \* the bucket refuses a name it already holds
        ELSE IF ~io.storage \/ filename \in uploads
        THEN Unchanged(Error(500, "storage error"))
        ELSE Outcome(posts, nextId, uploads \cup {filename},
                     Reply(200, [url |-> <<"public/uploads/", filename>>]))

backendGetPost(identifier, io) ==
    LET hits == IF IsNumericString(identifier) THEN RowsWithId(identifier)
                ELSE {i \in 1..Len(posts) : posts[i].slug = identifier}
    IN  \* .single() is an error unless exactly one row is selected
        IF ~io.db \/ Cardinality(hits) # 1
        THEN Unchanged(Error(404, "Post not found"))
        ELSE Unchanged(Reply(200, posts[FirstOf(hits)]))

\* The route has no multipart middleware: a request that carries a file is a
\* multipart request, whose fields stay unparsed.
backendCreate(header, body, file, io) ==
    LET gate == authMiddleware(header, now)
        parsed == IF file.present THEN <<>> ELSE body
    IN  IF ~gate.pass THEN Unchanged(gate.resp)
        ELSE IF Falsy(parsed, "title") \/ Falsy(parsed, "content")
                \/ Falsy(parsed, "label")
        THEN Unchanged(Error(400, "Missing fields"))
        ELSE
        LET slug == generateSlug(parsed.title) \o <<"-">> \o ToDigits(now)
            row == [id |-> nextId, title |-> parsed.title,
                    content |-> parsed.content, label |-> parsed.label,
                    slug |-> slug,
                    image |-> IF Falsy(parsed, "image") THEN Null ELSE parsed.image,
                    created_at |-> now]
        IN  IF ~io.db THEN Unchanged(Error(500, "database error"))
            ELSE Outcome(Append(posts, row), nextId + 1, uploads, Reply(200, row))

\* the fields of `source` among `fields` that are truthy: ...(v && { v })
Truthy(source, fields) ==
    [f \in {g \in fields : ~Falsy(source, g)} |-> source[f]]

backendUpdate(header, id, body, file, io) ==
    LET gate == authMiddleware(header, now)
        filename == StoredName(now, file)
        uploadFails == file.present /\ (~io.storage \/ filename \in uploads)
        stored == IF file.present THEN uploads \cup {filename} ELSE uploads
        image == IF file.present
                 THEN [image |-> [url |-> <<"public/uploads/", filename>>]]
                 ELSE Truthy(body, {"image"})
        slug == IF Falsy(body, "title") \/ generateSlug(body.title) = <<>>
                THEN <<>>
                ELSE [slug |-> generateSlug(body.title)]
        updateData == Truthy(body, {"title", "content", "label"}) @@ slug @@ image
                      @@ [updated_at |-> now]
        hits == RowsWithId(id)
    IN  IF ~gate.pass THEN Unchanged(gate.resp)
        ELSE IF uploadFails THEN Unchanged(Error(500, "storage error"))
        \* an id that is no number fails the column's cast
        ELSE IF ~io.db \/ ~IsNumericString(id)
        THEN Outcome(posts, nextId, stored, Error(500, "database error"))
        ELSE Outcome(
                [i \in 1..Len(posts) |->
                    IF i \in hits THEN updateData @@ posts[i] ELSE posts[i]],
                nextId, stored,
                Reply(200, IF hits = {} THEN [success |-> TRUE]
                           ELSE [success |-> TRUE,
                                 post |-> updateData @@ posts[FirstOf(hits)]]))

\* the rows of `list` at the indices outside `drop`, in order
RECURSIVE Without(_, _, _)
Without(list, drop, i) ==
    IF i > Len(list) THEN <<>>
    ELSE (IF i \in drop THEN <<>> ELSE <<list[i]>>) \o Without(list, drop, i + 1)

backendDelete(header, id, io) ==
    LET gate == authMiddleware(header, now)
        hits == RowsWithId(id)
    IN  IF ~gate.pass THEN Unchanged(gate.resp)
        ELSE IF ~io.db \/ ~IsNumericString(id)
        THEN Unchanged(Error(500, "database error"))
        ELSE Outcome(Without(posts, hits, 1), nextId, uploads,
                     Reply(200, IF hits = {} THEN [success |-> TRUE]
                                ELSE [success |-> TRUE,
                                      post |-> posts[FirstOf(hits)]]))

(***************************************************************************)
(* The server's routes as actions: one action handles one request from     *)
(* its first middleware to its response.  req is the request last handled, *)
(* resp its response.                                                      *)
(***************************************************************************)
Apply(request, out) ==
    /\ posts' = out.posts
    /\ nextId' = out.nextId
    /\ uploads' = out.uploads
    /\ req' = request
    /\ resp' = out.resp
    /\ UNCHANGED <<variant, now, ticks, issued, inflight, slugVars>>

IOs == IF variant = "file" THEN FileIO ELSE BackendIO
AllGood == IF variant = "file" THEN [read |-> TRUE, write |-> TRUE]
           ELSE [storage |-> TRUE, db |-> TRUE]

Login(body) ==
    LET request == [route |-> LOGIN, body |-> body]
        compared == bcryptCompare(body.password, ADMIN_PASSWORD)
        token == jwtSign(body.username.val, JWT_SECRET, now)
    IN  /\ req' = request
        /\ IF Missing(body, "username") \/ Missing(body, "password")
           THEN /\ resp' = Error(400, "Username and password required")
                /\ UNCHANGED issued
           ELSE IF body.username # JString(ADMIN_USERNAME)
           THEN /\ resp' = Error(401, "Invalid credentials")
                /\ UNCHANGED issued
           ELSE IF compared = "throws"
           THEN /\ resp' = Error(500, "Server error")
                /\ UNCHANGED issued
           ELSE IF compared = "false"
           THEN /\ resp' = Error(401, "Invalid credentials")
                /\ UNCHANGED issued
           ELSE /\ resp' = Reply(200, [token |-> token])
                /\ issued' = issued \cup {[token |-> token, at |-> now]}
        /\ UNCHANGED <<variant, now, ticks, posts, nextId, uploads, inflight,
                       slugVars>>

Upload(header, file, io) ==
    Apply([route |-> UPLOAD, header |-> header, file |-> file, io |-> io],
          IF variant = "file" THEN fileUpload(header, file)
          ELSE backendUpload(header, file, io))

GetPost(identifier, io) ==
    Apply([route |-> GET_POST, identifier |-> identifier, io |-> io],
          IF variant = "file" THEN fileGetPost(identifier, io)
          ELSE backendGetPost(identifier, io))

CreatePost(header, body, file, io) ==
    Apply([route |-> CREATE, header |-> header, body |-> body, file |-> file,
           io |-> io],
          IF variant = "file" THEN fileCreate(header, body, file, io)
          ELSE backendCreate(header, body, file, io))

UpdatePost(header, id, body, file, io) ==
    Apply([route |-> UPDATE, header |-> header, id |-> id, body |-> body,
           file |-> file, io |-> io],
          IF variant = "file" THEN fileUpdate(header, id, body, file, io)
          ELSE backendUpdate(header, id, body, file, io))

DeletePost(header, id, io) ==
    Apply([route |-> DELETE, header |-> header, id |-> id, io |-> io],
          IF variant = "file" THEN fileDelete(header, id, io)
          ELSE backendDelete(header, id, io))

\* Date.now() moves on by d milliseconds
Tick(d) ==
    /\ now' = now + d
    /\ ticks' = ticks + 1
    /\ UNCHANGED <<variant, posts, nextId, uploads, issued, req, resp, inflight,
                   slugVars>>

(***************************************************************************)
(* Inputs.                                                                 *)
(***************************************************************************)
StartMs == MsPerSec

Hi == <<"H", "i">>
\* a title that reads as the id of a post created at the first clock reading
Thousand == ToDigits(StartMs)
\* a title without any character a slug keeps
Bang == <<"!">>
TitleValues == {Hi, Thousand, Bang}

\* a field of a body: absent, or present with one of the values
Field(name, values) == {<<>>} \cup {[f \in {name} |-> v] : v \in values}

PostBodies ==
    {t @@ c @@ l : t \in Field("title", TitleValues \cup {<<>>}),
                   c \in Field("content", {"c1", "c2"}),
                   l \in Field("label", {"l1"})}

\* the token a login at this moment hands out
FreshToken == jwtSign(ADMIN_USERNAME, JWT_SECRET, now)

\* ids a request may name: every stored post's, and one that no post has
IdParams == {ToDigits(posts[i].id) : i \in 1..Len(posts)} \cup {<<"0">>}

\* identifiers a lookup may name: every stored post's id, slug and derived
\* slug (an empty identifier matches no route), and one that no post has
Identifiers ==
    (IdParams
        \cup {posts[i].slug : i \in 1..Len(posts)}
        \cup {generateSlug(posts[i].title) : i \in 1..Len(posts)}
        \cup {<<"h", "a">>}) \ {<<>>}

NoRequest == [route |-> "none"]
NoReply == Reply(0, <<>>)

InitServer ==
    /\ variant \in {"file", "backend"}
    /\ now = StartMs
    /\ ticks = 0
    /\ posts = <<>>
    /\ nextId = 1
    /\ uploads = {}
    /\ issued = {}
    /\ req = NoRequest
    /\ resp = NoReply
    /\ inflight = <<>>
    /\ slugArg = <<>>
    /\ slugRes = <<>>
    /\ slugCalls = 0

\* The client has read the response: the exchange is over.
Settle ==
    /\ req # NoRequest
    /\ req' = NoRequest
    /\ resp' = NoReply
    /\ UNCHANGED <<variant, now, ticks, posts, nextId, uploads, issued, inflight,
                   slugVars>>

Idle == req = NoRequest

\* room for one more post: the list is short of MaxPosts, and the table's id
\* sequence has handed out at most MaxPosts ids
Room == Len(posts) < MaxPosts /\ nextId <= MaxPosts

(***************************************************************************)
(* Spec: the post routes under authenticated requests, one at a time.      *)
(***************************************************************************)
\* one call fails at most; no request of Spec carries a file, so none
\* calls the storage
SpecIOs == {io \in IOs : /\ Cardinality({k \in DOMAIN io : ~io[k]}) <= 1
                         /\ "storage" \in DOMAIN io => io.storage}

Init == InitServer

Next ==
    \/ Idle /\ ticks < MaxTicks /\ Tick(1)
    \/ Settle
    \/ \E identifier \in Identifiers, io \in SpecIOs :
          Idle /\ GetPost(identifier, io)
    \/ \E body \in PostBodies, io \in SpecIOs :
          Idle /\ Room /\ CreatePost(Bearer(FreshToken), body, NoFile, io)
    \/ \E id \in IdParams, body \in PostBodies, io \in SpecIOs :
          Idle /\ UpdatePost(Bearer(FreshToken), id, body, NoFile, io)
    \/ \E id \in IdParams, io \in SpecIOs :
          Idle /\ DeletePost(Bearer(FreshToken), id, io)

Spec == Init /\ [][Next]_vars

(***************************************************************************)
(* AuthSpec: the login and the gate.  Requests to the protected routes     *)
(* carry no header, a header of another scheme, or a bearer token: one no  *)
(* JWT at all, one signed with another secret, or one the login issued.    *)
(* The clock moves from the start of a second to its last millisecond, or  *)
(* on by what is left of an hour.                                          *)
(***************************************************************************)
\* most tokens issued in one behaviour
MaxTokens == 1
\* most clock ticks in one behaviour of AuthSpec
MaxAuthTicks == 2
\* most posts stored at once in AuthSpec, and most files
MaxAuthPosts == 1
MaxUploads == 1

HourMs == ExpiresInSec * MsPerSec
AuthSteps == {MsPerSec - 1, HourMs - (MsPerSec - 1)}

JField(name, values) == {<<>>} \cup {[f \in {name} |-> v] : v \in values}

LoginBodies ==
    {u @@ p :
        u \in JField("username",
                     {JString(""), JString(ADMIN_USERNAME), JString("eve")}),
        p \in JField("password",
                     {JString(""), JString(AdminPassword), JString("guess"),
                      JNumber("42")})}

AuthHeaders ==
    {NoHeader, OtherHeader, Bearer(MalformedToken),
     Bearer(jwtSign(ADMIN_USERNAME, "another-secret", now))}
        \cup {Bearer(e.token) : e \in issued}

AuthBodies == {<<>>, [title |-> Hi, content |-> "c1", label |-> "l1"]}
AuthFiles == {NoFile, File("a.png")}

AuthRoom == Len(posts) < MaxAuthPosts /\ nextId <= MaxAuthPosts
FileRoom(file) == file.present => Cardinality(uploads) < MaxUploads

AuthNext ==
    \/ \E d \in AuthSteps : Idle /\ ticks < MaxAuthTicks /\ Tick(d)
    \/ Settle
    \/ \E body \in LoginBodies :
          Idle /\ Cardinality(issued) < MaxTokens /\ Login(body)
    \/ \E header \in AuthHeaders, file \in AuthFiles :
          Idle /\ FileRoom(file) /\ Upload(header, file, AllGood)
    \/ \E header \in AuthHeaders, body \in AuthBodies, file \in AuthFiles :
          Idle /\ AuthRoom /\ FileRoom(file)
               /\ CreatePost(header, body, file, AllGood)
    \/ \E header \in AuthHeaders, id \in IdParams, body \in AuthBodies,
          file \in AuthFiles :
          Idle /\ FileRoom(file) /\ UpdatePost(header, id, body, file, AllGood)
    \/ \E header \in AuthHeaders, id \in IdParams :
          Idle /\ DeletePost(header, id, AllGood)

AuthSpec == InitServer /\ [][AuthNext]_vars

(***************************************************************************)
(* Properties of the post routes, checked under Spec.                      *)
(***************************************************************************)
\* every call of the request's handler succeeds
IoGood(request) == \A k \in DOMAIN request.io : request.io[k]

\* one of the three required fields is missing from the body or empty
Incomplete(body) ==
    \/ "title" \notin DOMAIN body \/ "content" \notin DOMAIN body
    \/ "label" \notin DOMAIN body
    \/ body.title = <<>> \/ body.content = "" \/ body.label = ""

\* the stored posts whose id the numeral names
PostsNamed(id) == {i \in 1..Len(posts) : ToDigits(posts[i].id) = id}

\* C3: an authenticated POST /api/posts whose body lacks title, content or
\* label, or holds it empty, is answered 400 and leaves the stored posts as
\* they were.
C3_IncompleteCreateRejected ==
    [][(req'.route = CREATE /\ req'.header = Bearer(FreshToken)
            /\ Incomplete(req'.body))
        => (resp'.status = 400 /\ posts' = posts)]_vars

\* C3's case: with a post stored, a create that has a title but no content
\* was answered 400.
C3_Witness ==
    /\ req.route = CREATE
    /\ "title" \in DOMAIN req.body /\ req.body.title # <<>>
    /\ "content" \notin DOMAIN req.body
    /\ resp.status = 400
    /\ Len(posts) = 1

\* C4: an authenticated DELETE /api/posts/:id whose calls succeed answers 404
\* and changes nothing when no stored post has the id; when one has, it
\* removes that post alone and answers with it.
C4_DeleteClaim ==
    [][(req'.route = DELETE /\ IoGood(req'))
        => IF PostsNamed(req'.id) = {}
           THEN resp'.status = 404 /\ posts' = posts
           ELSE \E i \in PostsNamed(req'.id) :
                    /\ posts' = RemoveAt(posts, i)
                    /\ resp'.status = 200
                    /\ resp'.body.post = posts[i]]_vars

\* the identifiers the claim names for post i: its id, its slug, and in the
\* file variant the slug of its title
SlugsOf(i) ==
    {posts[i].slug}
        \cup (IF variant = "file" THEN {generateSlug(posts[i].title)} ELSE {})

\* C5 as stated: a lookup by the id, the slug or (file variant) the derived
\* slug of a stored post returns that post.
C5_LookupClaim ==
    (req.route = GET_POST /\ IoGood(req))
        => \A i \in 1..Len(posts) :
              (req.identifier = ToDigits(posts[i].id)
                    \/ req.identifier \in SlugsOf(i))
                => resp = Reply(200, posts[i])

\* no other stored post has post i's id
UniqueId(i) == \A j \in 1..Len(posts) : posts[j].id = posts[i].id => j = i

\* no other stored post has x as its slug or as the slug of its title
UniqueSlug(i, x) ==
    \A j \in 1..Len(posts) :
        (posts[j].slug = x \/ generateSlug(posts[j].title) = x) => j = i

\* x reads as a number and so is looked up as an id: in the backend variant
\* never as a slug, in the file variant as a slug only when no post has the id
ReadAsId(i, x) ==
    /\ IsNumericString(x)
    /\ variant = "file" =>
          \E j \in 1..Len(posts) : j # i /\ posts[j].id = parseInt(x).val

\* What holds of the lookup: by the id of a stored post it returns that post when
\* no other post has the id; a lookup by its slug or (file variant) derived
\* slug returns it when no other post has that slug, stored or derived, and
\* the slug is not read as an id.
C5_Lookup ==
    (req.route = GET_POST /\ IoGood(req))
        => \A i \in 1..Len(posts) :
              /\ (req.identifier = ToDigits(posts[i].id) /\ UniqueId(i))
                    => resp = Reply(200, posts[i])
              /\ (req.identifier \in SlugsOf(i) /\ UniqueSlug(i, req.identifier)
                        /\ ~ReadAsId(i, req.identifier))
                    => resp = Reply(200, posts[i])

\* The lookup's case: with two posts stored, the second was looked up by its
\* slug and returned.
C5_Witness ==
    /\ req.route = GET_POST
    /\ Len(posts) = 2
    /\ req.identifier = posts[2].slug
    /\ posts[1].title # posts[2].title
    /\ resp = Reply(200, posts[2])

\* C7: an authenticated PUT /api/posts/:id naming a stored post, with any
\* subset of title, content and label, is accepted: the fields supplied
\* replace the stored ones, the others stay, the slug is that of the new
\* title if and only if a title is supplied, and the update time is set.
C7_PartialUpdateClaim ==
    [][(req'.route = UPDATE /\ IoGood(req') /\ PostsNamed(req'.id) # {})
        => /\ resp'.status = 200
           /\ Len(posts') = Len(posts)
           /\ \A i \in 1..Len(posts) :
                 IF i \notin PostsNamed(req'.id) THEN posts'[i] = posts[i]
                 ELSE /\ \A f \in {"title", "content", "label"} :
                            posts'[i][f] = IF f \in DOMAIN req'.body
                                           THEN req'.body[f] ELSE posts[i][f]
                      /\ posts'[i].slug =
                            IF "title" \in DOMAIN req'.body
                            THEN generateSlug(req'.body.title) ELSE posts[i].slug
                      /\ (IF variant = "file" THEN posts'[i].updated
                          ELSE posts'[i].updated_at) = now]_vars

\* C9: in the backend variant, no two posts that are as POST /api/posts
\* created them have the same slug.
C9_CreatedSlugsDistinct ==
    variant = "backend"
        => \A i, j \in 1..Len(posts) :
              (i # j /\ "updated_at" \notin DOMAIN posts[i]
                     /\ "updated_at" \notin DOMAIN posts[j])
                => posts[i].slug # posts[j].slug

\* C10: in the file variant, a create answered with success leaves the list
\* it found, unchanged and in order, followed by the new post.
C10_CreateAppends ==
    [][(variant = "file" /\ req'.route = CREATE /\ resp'.status = 200)
        => /\ Len(posts') = Len(posts) + 1
           /\ SubSeq(posts', 1, Len(posts)) = posts
           /\ posts'[Len(posts')].id = resp'.body.id]_vars

(***************************************************************************)
(* Properties of the login and the gate, checked under AuthSpec.           *)
(***************************************************************************)
\* the token is one the login issued, and its exp lies ahead of the clock's
\* whole seconds
Verifies(token) ==
    /\ \E e \in issued : e.token = token
    /\ now \div MsPerSec < token.exp

\* the response is not the gate's: the route's handler ran
HandlerRan(r) == r.status \notin {401, 403}

\* C1: a request to a protected route is answered 401 without a header
\* starting with 'Bearer ', 403 with a token that fails verification, and in
\* both cases leaves posts and uploads as they were; the handler runs exactly
\* when the token verifies.
C1_GateGuardsRoutes ==
    [][req'.route \in Protected
        => LET header == req'.header
               kept == posts' = posts /\ nextId' = nextId /\ uploads' = uploads
           IN  /\ header.kind # "bearer" => (resp'.status = 401 /\ kept)
               /\ (header.kind = "bearer" /\ ~Verifies(header.token))
                     => (resp'.status = 403 /\ kept)
               /\ HandlerRan(resp')
                     <=> (header.kind = "bearer" /\ Verifies(header.token))]_vars

\* C1's case: a delete naming a stored post, with a token the login issued
\* that has expired, was answered 403 and the post is still stored.
C1_Witness ==
    /\ req.route = DELETE
    /\ req.header.kind = "bearer"
    /\ \E e \in issued : e.token = req.header.token
    /\ resp.status = 403
    /\ PostsNamed(req.id) # {}

\* the body holds the admin's username and password
CorrectCredentials(body) ==
    /\ "username" \in DOMAIN body /\ body.username = JString(ADMIN_USERNAME)
    /\ "password" \in DOMAIN body /\ body.password = JString(AdminPassword)

\* the body holds a username and a password, both non-empty strings
BothSupplied(body) ==
    \A f \in {"username", "password"} :
        f \in DOMAIN body /\ body[f].type = "string" /\ body[f].val # ""

\* the login's answer: a token with the right credentials, 401 and no token
\* otherwise
LoginAnswer ==
    IF CorrectCredentials(req.body)
    THEN /\ resp.status = 200
         /\ \E e \in issued : e.token = resp.body.token /\ e.at = now
    ELSE resp.status = 401 /\ "token" \notin DOMAIN resp.body

MaxInflight == 2

Slots == 1..MaxInflight
IdleSlot == [pc |-> "idle"]

\* the writes to posts.json completed so far
Version == Cardinality({k \in Slots : inflight[k].pc = "done" /\ inflight[k].wrote > 0})

\* a post as the create handler stores it, given the body and the clock
NewPost(body, t) ==
    [id |-> t, title |-> body.title, content |-> body.content,
     label |-> body.label, slug |-> generateSlug(body.title), createdAt |-> t,
     image |-> Null]

\* a post the create handler stored at the first clock reading
SeedPost == NewPost([title |-> Hi, content |-> "c1", label |-> "l1"], StartMs)

\* the synchronous part of a mutating route: the response it sends without
\* reading the file, if any
fileBegin(request) ==
    LET gate == authMiddleware(request.header, now)
    IN  IF ~gate.pass THEN [done |-> TRUE, resp |-> gate.resp]
        ELSE IF /\ request.route \in {CREATE, UPDATE}
                /\ \/ Falsy(request.body, "title") \/ Falsy(request.body, "content")
                   \/ Falsy(request.body, "label")
        THEN [done |-> TRUE,
              resp |-> Error(400, "Title, content, and label required")]
        ELSE [done |-> FALSE]

\* the readFile callback of a mutating route on the list it is handed (ok:
\* the read succeeded): the response it sends without writing, or the list
\* it writes and the response that follows a successful write
fileOnRead(request, ok, list, t) ==
    LET postId == parseInt(IF request.route = CREATE THEN <<>> ELSE request.id)
        index == FirstIndex(list, LAMBDA p : ~postId.nan /\ p.id = postId.val)
    IN  IF request.route = CREATE
        THEN LET newPost == NewPost(request.body, t)
             IN  [done |-> FALSE,
                  base |-> IF ok THEN list ELSE <<>>,
                  pending |-> Append(IF ok THEN list ELSE <<>>, newPost),
                  resp |-> Reply(200, [success |-> TRUE, id |-> newPost.id,
                                       slug |-> newPost.slug])]
        ELSE IF ~ok THEN [done |-> TRUE, resp |-> Error(500, "Cannot read posts")]
        ELSE IF index = 0 THEN [done |-> TRUE, resp |-> Error(404, "Post not found")]
        ELSE IF request.route = UPDATE
        THEN [done |-> FALSE, base |-> list,
              pending |->
                [list EXCEPT ![index] =
                    [title |-> request.body.title, content |-> request.body.content,
                     label |-> request.body.label,
                     slug |-> generateSlug(request.body.title),
                     updated |-> t] @@ list[index]],
              resp |-> Reply(200, [success |-> TRUE])]
        ELSE [done |-> FALSE, base |-> list,
              pending |-> RemoveAt(list, index),
              resp |-> Reply(200, [success |-> TRUE, post |-> list[index]])]

\* A write that appends what the request added to the file as it is now,
\* instead of replacing the file with the list the request computed.
fileWrittenMerged(slot) ==
    IF Len(slot.pending) > Len(slot.base)
    THEN Append(posts, slot.pending[Len(slot.pending)])
    ELSE slot.pending

\* posts.json after the request's writeFile: the list the request computed
fileWritten(slot) == slot.pending

raceVars == <<variant, ticks, nextId, uploads, issued, req, resp, slugVars>>

Begin(k, request) ==
    /\ inflight[k].pc = "idle"
    /\ LET first == fileBegin(request)
       IN  inflight' = [inflight EXCEPT ![k] =
                IF first.done
                THEN [pc |-> "done", req |-> request, resp |-> first.resp,
                      wrote |-> 0]
                ELSE [pc |-> "reading", req |-> request]]
    /\ UNCHANGED <<now, posts, raceVars>>

ReadDone(k, ok) ==
    /\ inflight[k].pc = "reading"
    /\ LET read == fileOnRead(inflight[k].req, ok, posts, now)
       IN  inflight' = [inflight EXCEPT ![k] =
                IF read.done
                THEN [pc |-> "done", req |-> inflight[k].req, resp |-> read.resp,
                      wrote |-> 0]
                ELSE [pc |-> "writing", req |-> inflight[k].req,
                      base |-> read.base, pending |-> read.pending,
                      resp |-> read.resp, readVersion |-> Version,
                      stamp |-> now]]
    /\ UNCHANGED <<now, posts, raceVars>>

WriteDone(k, ok) ==
    /\ inflight[k].pc = "writing"
    /\ posts' = IF ok THEN fileWritten(inflight[k]) ELSE posts
    /\ inflight' = [inflight EXCEPT ![k] =
            [pc |-> "done", req |-> inflight[k].req,
             base |-> inflight[k].base, pending |-> inflight[k].pending,
             readVersion |-> inflight[k].readVersion,
             stamp |-> inflight[k].stamp,
             resp |-> IF ok THEN inflight[k].resp
                      ELSE Error(500, "Cannot save post"),
             wrote |-> IF ok THEN Version + 1 ELSE 0]]
    /\ UNCHANGED <<now, raceVars>>

RaceTick ==
    /\ ticks < MaxTicks
    /\ now' = now + 1
    /\ ticks' = ticks + 1
    /\ UNCHANGED <<variant, posts, nextId, uploads, issued, req, resp, inflight,
                   slugVars>>

RaceBodies ==
    {[title |-> Hi, content |-> "c1", label |-> "l1"],
     [title |-> Thousand, content |-> "c2", label |-> "l1"],
     [title |-> Hi]}

RaceRequests ==
    {[route |-> CREATE, header |-> h, body |-> b] :
        h \in {NoHeader, Bearer(FreshToken)}, b \in RaceBodies}
      \cup {[route |-> UPDATE, header |-> Bearer(FreshToken), id |-> i, body |-> b] :
                i \in IdParams, b \in RaceBodies}
      \cup {[route |-> DELETE, header |-> Bearer(FreshToken), id |-> i] :
                i \in IdParams}

RaceInit ==
    /\ variant = "file"
    /\ now = StartMs
    /\ ticks = 0
    /\ posts \in {<<>>, <<SeedPost>>}
    /\ nextId = 1
    /\ uploads = {}
    /\ issued = {}
    /\ req = NoRequest
    /\ resp = NoReply
    /\ inflight = [k \in Slots |-> IdleSlot]
    /\ slugArg = <<>>
    /\ slugRes = <<>>
    /\ slugCalls = 0

RaceNext ==
    \/ RaceTick
    \/ \E k \in Slots, request \in RaceRequests : Begin(k, request)
    \/ \E k \in Slots, ok \in BOOLEAN : ReadDone(k, ok)
    \/ \E k \in Slots, ok \in BOOLEAN : WriteDone(k, ok)

RaceSpec == RaceInit /\ [][RaceNext]_vars

\* the request of slot k was answered with success after writing the file
Wrote(k) ==
    /\ inflight[k].pc = "done"
    /\ inflight[k].wrote > 0
    /\ inflight[k].resp.status = 200

\* C8: when two requests were both answered with success, both had read the
\* file before either wrote it, and the second of them wrote last, the file
\* is the second's mutation applied to what the second had read: the first's
\* mutation is not in it.
C8_LastWriterWins ==
    \A a, b \in Slots :
        (/\ a # b /\ Wrote(a) /\ Wrote(b)
         /\ inflight[a].readVersion < inflight[b].wrote
         /\ inflight[b].readVersion < inflight[a].wrote
         /\ inflight[a].wrote < inflight[b].wrote
         /\ inflight[b].wrote = Version)
            => posts = fileOnRead(inflight[b].req, TRUE, inflight[b].base,
                                  inflight[b].stamp).pending

\* C8's case: two creates that both read the one stored post, both answered
\* with success, and the file holds the second's post but not the first's.
C8_Witness ==
    \E a, b \in Slots :
        /\ Wrote(a) /\ Wrote(b)
        /\ inflight[a].req.route = CREATE /\ inflight[b].req.route = CREATE
        /\ inflight[a].req.body.title # inflight[b].req.body.title
        /\ inflight[a].base = <<SeedPost>> /\ inflight[b].base = <<SeedPost>>
        /\ inflight[a].wrote < inflight[b].wrote
        /\ posts = <<SeedPost, inflight[b].pending[2]>>
        /\ inflight[a].pending[2] # inflight[b].pending[2]

(***************************************************************************)
(* SlugSpec: generateSlug applied to a title, then to its own result.      *)
(***************************************************************************)
SlugInit ==
    /\ variant \in {"file", "backend"}
    /\ now = StartMs
    /\ ticks = 0
    /\ posts = <<>>
    /\ nextId = 1
    /\ uploads = {}
    /\ issued = {}
    /\ req = NoRequest
    /\ resp = NoReply
    /\ inflight = <<>>
    /\ slugArg \in SlugInputs
    /\ slugRes = <<>>
    /\ slugCalls = 0

serverVars == <<variant, now, ticks, posts, nextId, uploads, issued, req, resp,
                inflight>>

\* generateSlug(title)
SlugFirst ==
    /\ slugCalls = 0
    /\ slugRes' = generateSlug(slugArg)
    /\ slugCalls' = 1
    /\ UNCHANGED <<slugArg, serverVars>>

\* generateSlug(generateSlug(title))
SlugSecond ==
    /\ slugCalls = 1
    /\ slugRes' = generateSlug(slugRes)
    /\ slugCalls' = 2
    /\ UNCHANGED <<slugArg, serverVars>>

SlugNext == SlugFirst \/ SlugSecond

SlugSpec == SlugInit /\ [][SlugNext]_vars

\* C6: applying generateSlug to a slug it produced returns that slug
\* unchanged.
C6_SlugIdempotent == [][slugCalls = 1 => slugRes' = slugRes]_vars

\* C6's case: a title that generateSlug rewrote (case, a run of spaces, a
\* symbol or an outer hyphen), slugged twice.
C6_Witness ==
    /\ slugCalls = 2
    /\ slugRes # <<>>
    /\ slugRes # slugArg
    /\ Len(slugRes) < Len(slugArg)
    /\ \E i \in 1..Len(slugRes) : slugRes[i] = "-"

=============================================================================
